---- MODULE Spec2Model ----
(***************************************************************************)
(* Room/session state machine of the Gobblet Gobblers server.  The         *)
(* repository holds three variants of server.js (src/server.js,            *)
(* src/unnamed/part_000, src/unnamed/part_001); each is modelled as its    *)
(* own next-state relation over one shared state.                          *)
(***************************************************************************)
EXTENDS Integers, Sequences, FiniteSets, TLC

\* ----------------------------------------------------------------- bounds
NSock == 3          \* connections ever accepted by io.on("connection")
NPayloads == 5      \* place_piece payloads the clients send (of PayloadOrder)
MaxQueue == 2       \* entries of the spectator queue
MaxRejoin == 1      \* join requests by a socket that has joined before

\* -------------------------------------------------------------- constants
Null == "null"
RoomID == "x"
Socks == 1..NSock
Slots == {"A", "B"}
SlotKeys == {"A", "B", "spectator"}
Sizes == {"small", "medium", "large"}
SIZE_VAL == [small |-> 1, medium |-> 2, large |-> 3]
Cells == (0..2) \X (0..2)

FullHand == [small |-> 2, medium |-> 2, large |-> 2]
EmptyBoard == [cell \in Cells |-> <<>>]
\* players[k] = null: no connection (ids start at 1) and no pieces.
NoPlayer == [id |-> 0, pieces |-> [small |-> 0, medium |-> 0, large |-> 0]]
NoPlayers == [k \in SlotKeys |-> NoPlayer]
NoDecisions == [k \in SlotKeys |-> Null]
NoData == [roomID |-> Null, playerSlot |-> Null]

OtherSlot(s) == IF s = "A" THEN "B" ELSE "A"

\* ------------------------------------------------------------------ rules
\* stack.at(-1)
Top(stack) == stack[Len(stack)]

\* A faulty legality test, to test the claims' sensitivity: a piece may
\* cover one of its own size.
canPlaceAtLoose(b, cell, size) ==
  IF b[cell] = <<>> THEN TRUE
  ELSE SIZE_VAL[size] >= SIZE_VAL[b[cell][Len(b[cell])].size]

canPlaceAt(b, cell, size) ==
  IF b[cell] = <<>> THEN TRUE
  ELSE SIZE_VAL[size] > SIZE_VAL[Top(b[cell]).size]

Lines == << << <<0,0>>, <<0,1>>, <<0,2>> >>,
            << <<1,0>>, <<1,1>>, <<1,2>> >>,
            << <<2,0>>, <<2,1>>, <<2,2>> >>,
            << <<0,0>>, <<1,0>>, <<2,0>> >>,
            << <<0,1>>, <<1,1>>, <<2,1>> >>,
            << <<0,2>>, <<1,2>>, <<2,2>> >>,
            << <<0,0>>, <<1,1>>, <<2,2>> >>,
            << <<0,2>>, <<1,1>>, <<2,0>> >> >>

TopOwner(b, cell) == IF b[cell] = <<>> THEN Null ELSE Top(b[cell]).owner

LineWon(b, line) ==
  /\ TopOwner(b, line[1]) # Null
  /\ TopOwner(b, line[2]) = TopOwner(b, line[1])
  /\ TopOwner(b, line[3]) = TopOwner(b, line[1])

\* A faulty scan, to test the claims' sensitivity: the last complete line
\* decides.
checkWinnerLast(b) ==
  IF \E i \in 1..Len(Lines) : LineWon(b, Lines[i])
  THEN LET last == CHOOSE i \in 1..Len(Lines) :
                     /\ LineWon(b, Lines[i])
                     /\ \A j \in (i+1)..Len(Lines) : ~LineWon(b, Lines[j])
       IN  TopOwner(b, Lines[last][1])
  ELSE Null

checkWinner(b) ==
  IF \E i \in 1..Len(Lines) : LineWon(b, Lines[i])
  THEN LET first == CHOOSE i \in 1..Len(Lines) :
                      /\ LineWon(b, Lines[i])
                      /\ \A j \in 1..(i-1) : ~LineWon(b, Lines[j])
       IN  TopOwner(b, Lines[first][1])
  ELSE Null

\* ------------------------------------------------------------------ state
VARIABLES
  impl,           \* which variant of server.js runs
  nconn,          \* connections accepted so far (socket ids 1..nconn)
  connected,      \* io.sockets.sockets: the live sockets
  members,        \* io.sockets.adapter.rooms.get(RoomID)
  data,           \* socket.data of every socket
  rooms,          \* the registry: the ids with a room
  board, players, currentTurn, winner, started,
  watchQueue,     \* watchQueue (server.js, part_000) / spectators (part_001)
  postDecisions,  \* postDecisions / pendingDecisions (part_001)
  rejoins         \* join requests by a socket that had joined before

roomVars == <<board, players, currentTurn, winner, started, watchQueue, postDecisions>>
vars == <<impl, nconn, connected, members, data, rooms, board, players,
          currentTurn, winner, started, watchQueue, postDecisions, rejoins>>

Impls == {"server", "part_000", "part_001"}

\* createNewGameState()
createNewGameState ==
  [board |-> EmptyBoard, players |-> NoPlayers, currentTurn |-> Null,
   winner |-> Null, started |-> FALSE, watchQueue |-> <<>>,
   postDecisions |-> NoDecisions]

InitCommon ==
  /\ nconn = 0
  /\ connected = {}
  /\ members = {}
  /\ data = [c \in Socks |-> NoData]
  /\ rooms = {}
  /\ board = createNewGameState.board
  /\ players = createNewGameState.players
  /\ currentTurn = createNewGameState.currentTurn
  /\ winner = createNewGameState.winner
  /\ started = createNewGameState.started
  /\ watchQueue = createNewGameState.watchQueue
  /\ postDecisions = createNewGameState.postDecisions
  /\ rejoins = 0

\* The whole world as one record, so that a handler's statements compose.
Cur ==
  [board |-> board, players |-> players, currentTurn |-> currentTurn,
   winner |-> winner, started |-> started, watchQueue |-> watchQueue,
   postDecisions |-> postDecisions, rooms |-> rooms, data |-> data,
   members |-> members, connected |-> connected, emits |-> <<>>]

\* io.to(roomID).emit(ev, sanitizeState(room)): the snapshot's fields the
\* clients act on.
Emit(s, ev) ==
  [s EXCEPT !.emits = Append(@,
     [ev |-> ev, started |-> s.started, winner |-> s.winner,
      A |-> s.players["A"] # NoPlayer, B |-> s.players["B"] # NoPlayer])]

\* delete rooms[roomID]: a later join starts from createNewGameState().
DeleteRoom(s) ==
  [s EXCEPT !.rooms = {},
            !.board = EmptyBoard, !.players = NoPlayers, !.currentTurn = Null,
            !.winner = Null, !.started = FALSE, !.watchQueue = <<>>,
            !.postDecisions = NoDecisions]

\* The step of the handler `op` run for socket c, which leaves the world s.
Commit(s, op, c) ==
  /\ board' = s.board
  /\ players' = s.players
  /\ currentTurn' = s.currentTurn
  /\ winner' = s.winner
  /\ started' = s.started
  /\ watchQueue' = s.watchQueue
  /\ postDecisions' = s.postDecisions
  /\ rooms' = s.rooms
  /\ data' = s.data
  /\ members' = s.members
  /\ connected' = s.connected
  /\ nconn' = IF c > nconn THEN c ELSE nconn
  /\ rejoins' = IF op = "join" /\ c <= nconn /\ data[c].roomID # Null
                THEN rejoins + 1 ELSE rejoins
  /\ UNCHANGED impl

\* io.on("connection") and the socket's first join: socket ids are handed out
\* in order, and a socket that has not joined has no room for any handler to
\* act on.  A socket that has joined may join again.
FirstJoin(c) == c = nconn + 1 /\ c <= NSock

CanJoin(c) ==
  \/ FirstJoin(c)
  \/ c \in connected /\ data[c].roomID = Null
  \/ c \in connected /\ data[c].roomID # Null /\ rejoins < MaxRejoin

HasRoom(s, c) == s.data[c].roomID # Null /\ s.data[c].roomID \in s.rooms

BothPresent(s) == s.players["A"] # NoPlayer /\ s.players["B"] # NoPlayer

\* A faulty construction of a player, to test the claims' sensitivity: the
\* new player is short of one small piece.
NewPlayerShort(c) == [id |-> c, pieces |-> [FullHand EXCEPT !.small = 1]]

NewPlayer(c) == [id |-> c, pieces |-> FullHand]

\* --------------------------------------------------------------- payloads
\* The payloads of the two move kinds, and one of an unknown kind.
FromHand(z, t) == [action |-> "place_from_hand", size |-> z, to |-> t]
OnBoard(f, t) == [action |-> "move_on_board", from |-> f, to |-> t]
\* The cells the payloads of PayloadOrder name, and one that stays empty in
\* every run (<<2,0>>, as every other cell does).
ProbeCells == {<<0,0>>, <<0,1>>, <<1,1>>, <<2,2>>, <<2,0>>}
AllPayloads ==
       {FromHand(z, t) : z \in Sizes, t \in ProbeCells}
  \cup {OnBoard(f, t) : f \in ProbeCells, t \in ProbeCells}
  \cup {[action |-> "pass"]}

\* The payloads the clients of a run send: the first NPayloads of this list.
PayloadOrder ==
  << FromHand("small", <<0,0>>), OnBoard(<<0,0>>, <<1,1>>),
     FromHand("medium", <<2,2>>), FromHand("small", <<0,1>>),
     [action |-> "pass"],
     FromHand("medium", <<0,1>>), OnBoard(<<1,1>>, <<0,0>>),
     FromHand("large", <<2,2>>) >>
Payloads == {PayloadOrder[i] : i \in 1..NPayloads}

\* ------------------------------------------------ place_piece (shared code)
Push(b, cell, piece) == [b EXCEPT ![cell] = Append(@, piece)]
Pop(b, cell) == [b EXCEPT ![cell] = SubSeq(@, 1, Len(@) - 1)]

Rejected(s, why) == [err |-> why, s |-> s]
Accepted(s) == [err |-> Null, s |-> s]

\* The try block of part_000 and part_001 (the same statements in both): an
\* Error thrown is the acknowledgment's reason, nothing is changed before it.
placeFromHand(s, slot, p) ==
  LET player == s.players[slot]
  IN  IF player = NoPlayer THEN Rejected(s, "TypeError")
      ELSE IF player.pieces[p.size] <= 0 THEN Rejected(s, "no piece")
      ELSE IF ~canPlaceAt(s.board, p.to, p.size) THEN Rejected(s, "illegal")
      ELSE Accepted([s EXCEPT
             !.board = Push(@, p.to, [owner |-> slot, size |-> p.size]),
             !.players[slot].pieces[p.size] = @ - 1])

moveOnBoard(s, slot, p) ==
  LET srcStack == s.board[p.from]
      top == Top(srcStack)
  IN  IF srcStack = <<>> THEN Rejected(s, "empty")
      ELSE IF top.owner # slot THEN Rejected(s, "not yours")
      ELSE IF ~canPlaceAt(s.board, p.to, top.size) THEN Rejected(s, "illegal")
      ELSE Accepted([s EXCEPT !.board = Push(Pop(@, p.from), p.to, top)])

tryMove(s, slot, p) ==
  IF p.action = "place_from_hand" THEN placeFromHand(s, slot, p)
  ELSE IF p.action = "move_on_board" THEN moveOnBoard(s, slot, p)
  ELSE Accepted(s)

\* A faulty end of a move, to test the claims' sensitivity: the winner is
\* never looked for.
afterMoveBlind(s, slot) ==
  Emit([s EXCEPT !.currentTurn = OtherSlot(slot)], "update_state")

\* A faulty end of a move, to test the claims' sensitivity: whoever moved
\* wins when a line is complete.
afterMoveMover(s, slot) ==
  IF checkWinner(s.board) # Null
  THEN Emit([s EXCEPT !.winner = slot, !.started = FALSE,
                      !.postDecisions = NoDecisions], "game_over")
  ELSE Emit([s EXCEPT !.currentTurn = OtherSlot(slot)], "update_state")

\* After the move: checkWinner, then game over or the other slot's turn.
afterMove(s, slot) ==
  LET w == checkWinner(s.board)
  IN  IF w # Null
      THEN Emit([s EXCEPT !.winner = w, !.started = FALSE,
                          !.postDecisions = NoDecisions], "game_over")
      ELSE Emit([s EXCEPT !.currentTurn = OtherSlot(slot)], "update_state")

\* The handler of part_000 and part_001: the four preconditions in order,
\* then the try block.
placePiece(s, c, p) ==
  LET slot == s.data[c].playerSlot
  IN  IF ~HasRoom(s, c) THEN [ack |-> "none", s |-> s]
      ELSE IF slot \notin Slots THEN [ack |-> "spectator", s |-> s]
      ELSE IF ~s.started THEN [ack |-> "not_started", s |-> s]
      ELSE IF s.winner # Null THEN [ack |-> "game_over", s |-> s]
      ELSE IF s.currentTurn # slot THEN [ack |-> "not_your_turn", s |-> s]
      ELSE LET r == tryMove(s, slot, p)
           IN  IF r.err # Null THEN [ack |-> r.err, s |-> r.s]
               ELSE [ack |-> "ok", s |-> afterMove(r.s, slot)]

\* ================================================================ part_001
P1Decisions == {"rematch", "leave", "spectate", "bogus"}

Ack(a, s) == [ack |-> a, s |-> s]

\* socket.join(roomID), socket.data.roomID = roomID, the room created if absent.
Enter(s, c) ==
  [s EXCEPT !.connected = @ \cup {c}, !.members = @ \cup {c},
            !.data[c].roomID = RoomID, !.rooms = @ \cup {RoomID}]

\* A faulty join, to test the claims' sensitivity: the joiner always takes
\* slot A, whoever holds it.
JoinTakesA(s, c) ==
  LET s0 == Enter(s, c)
  IN  Ack("A", Emit([s0 EXCEPT !.players["A"] = NewPlayer(c),
                               !.data[c].playerSlot = "A"], "update_state"))

\* The join handler of part_001.
P1join(s, c) ==
  LET s0 == Enter(s, c)
      assigned == IF s0.players["A"] = NoPlayer THEN "A"
                  ELSE IF s0.players["B"] = NoPlayer THEN "B" ELSE "spectator"
      s1 == IF assigned \in Slots
            THEN [s0 EXCEPT !.players[assigned] = NewPlayer(c)]
            ELSE [s0 EXCEPT !.watchQueue = Append(@, c)]
      s2 == [s1 EXCEPT !.data[c].playerSlot = assigned]
  IN  Ack(assigned,
          IF BothPresent(s2) /\ ~s2.started /\ s2.winner = Null
          THEN Emit([s2 EXCEPT !.currentTurn = "A", !.started = TRUE],
                    "start_game")
          ELSE Emit(s2, "update_state"))

\* resolveGameDecisions, step 1, for one slot.
P1Dispose(s, slot) ==
  LET p == s.players[slot]
      choice == IF p # NoPlayer
                THEN (IF s.postDecisions[slot] # Null
                      THEN s.postDecisions[slot] ELSE "leave")
                ELSE "leave"
  IN  IF choice = "leave"
      THEN LET s1 == IF p # NoPlayer /\ p.id \in s.connected
                     THEN [s EXCEPT !.members = @ \ {p.id},
                                    !.data[p.id] = NoData]
                     ELSE s
           IN  [s1 EXCEPT !.players[slot] = NoPlayer]
      ELSE IF choice = "spectate"
      THEN LET s1 == IF p # NoPlayer
                     THEN [s EXCEPT
                             !.watchQueue = Append(@, p.id),
                             !.data[p.id].playerSlot =
                                IF p.id \in s.connected THEN "spectator" ELSE @]
                     ELSE s
           IN  [s1 EXCEPT !.players[slot] = NoPlayer]
      ELSE s

\* resolveGameDecisions, step 2, for one slot: one entry is shifted, and
\* dropped when its socket is gone.
P1Refill(s, slot) ==
  IF s.players[slot] = NoPlayer /\ Len(s.watchQueue) > 0
  THEN LET nextSpec == Head(s.watchQueue)
           s1 == [s EXCEPT !.watchQueue = Tail(@)]
       IN  IF nextSpec \in s.connected
           THEN [s1 EXCEPT !.players[slot] = NewPlayer(nextSpec),
                           !.data[nextSpec].playerSlot = slot]
           ELSE s1
  ELSE s

ResetHands(s) ==
  [s EXCEPT !.players = [k \in SlotKeys |->
      IF k \in Slots /\ @[k] # NoPlayer THEN [@[k] EXCEPT !.pieces = FullHand]
      ELSE @[k]]]

\* resolveGameDecisions, step 3.
P1Restart(s) ==
  LET s1 == ResetHands([s EXCEPT !.board = EmptyBoard, !.winner = Null,
                                 !.postDecisions = NoDecisions])
  IN  IF BothPresent(s1)
      THEN Emit([s1 EXCEPT !.currentTurn = "A", !.started = TRUE], "start_game")
      ELSE Emit([s1 EXCEPT !.started = FALSE, !.currentTurn = Null],
                "update_state")

resolveGameDecisions(s) ==
  P1Restart(P1Refill(P1Refill(P1Dispose(P1Dispose(s, "A"), "B"), "A"), "B"))

\* The post_game_decision handler of part_001 (it takes no acknowledgment).
P1postGameDecision(s, c, d) ==
  LET slot == s.data[c].playerSlot
  IN  IF ~HasRoom(s, c) \/ s.winner = Null \/ slot \notin Slots
      THEN Ack("none", s)
      ELSE LET s1 == [s EXCEPT !.postDecisions[slot] = d]
               waitA == s1.players["A"] # NoPlayer /\ s1.postDecisions["A"] = Null
               waitB == s1.players["B"] # NoPlayer /\ s1.postDecisions["B"] = Null
           IN  IF waitA \/ waitB THEN Ack("none", s1)
               ELSE Ack("none", resolveGameDecisions(s1))

\* The socket has left its rooms and io.sockets.sockets before the handler runs.
Gone(s, c) == [s EXCEPT !.connected = @ \ {c}, !.members = @ \ {c}]

\* The socket object is unreachable once its disconnect handler has run.
Forget(s, c) == [s EXCEPT !.data[c] = NoData]

DeleteIfEmpty(s) == IF s.members = {} THEN DeleteRoom(s) ELSE s

\* The disconnect handler of part_001.
P1disconnect(s, c) ==
  LET s0 == Gone(s, c)
      slot == s.data[c].playerSlot
  IN  IF ~HasRoom(s0, c) THEN Forget(s0, c)
      ELSE Forget(DeleteIfEmpty(
             IF slot \in Slots
             THEN IF s0.winner # Null
                  THEN resolveGameDecisions(
                         [s0 EXCEPT !.postDecisions[slot] = "leave"])
                  ELSE Emit([s0 EXCEPT !.players[slot] = NoPlayer,
                                       !.started = FALSE], "update_state")
             ELSE IF slot = "spectator"
             THEN Emit([s0 EXCEPT !.watchQueue =
                          SelectSeq(@, LAMBDA id : id # c)], "update_state")
             ELSE s0), c)

P1Join(c) ==
  /\ impl = "part_001"
  /\ CanJoin(c)
  /\ Len(P1join(Cur, c).s.watchQueue) <= MaxQueue
  /\ Commit(P1join(Cur, c).s, "join", c)

P1PlacePiece(c, p) ==
  /\ impl = "part_001"
  /\ c \in connected
  /\ Commit(placePiece(Cur, c, p).s, "place_piece", c)

P1PostGameDecision(c, d) ==
  /\ impl = "part_001"
  /\ c \in connected
  /\ Commit(P1postGameDecision(Cur, c, d).s, "decision", c)

P1Disconnect(c) ==
  /\ impl = "part_001"
  /\ c \in connected
  /\ Commit(P1disconnect(Cur, c), "disconnect", c)

NextP1 ==
  \/ \E c \in Socks : P1Join(c)
  \/ \E c \in Socks, p \in Payloads : P1PlacePiece(c, p)
  \/ \E c \in Socks, d \in P1Decisions : P1PostGameDecision(c, d)
  \/ \E c \in Socks : P1Disconnect(c)

InitP1 == impl = "part_001" /\ InitCommon
SpecP1 == InitP1 /\ [][NextP1]_vars

\* ================================================================ part_000
P0Decisions == {"continue", "quit", "bogus"}

\* removeFromWatchQueue: indexOf and splice, the first occurrence only.
removeFromWatchQueue(q, id) ==
  IF \E i \in 1..Len(q) : q[i] = id
  THEN LET idx == CHOOSE i \in 1..Len(q) :
                    q[i] = id /\ \A j \in 1..(i-1) : q[j] # id
       IN  SubSeq(q, 1, idx - 1) \o SubSeq(q, idx + 1, Len(q))
  ELSE q

RECURSIVE promoteNextSpectatorToSlot(_, _)
promoteNextSpectatorToSlot(s, slot) ==
  IF s.watchQueue = <<>>
  THEN Emit([s EXCEPT !.players[slot] = NoPlayer, !.started = FALSE],
            "update_state")
  ELSE LET nextId == Head(s.watchQueue)
           s1 == [s EXCEPT !.watchQueue = Tail(@)]
       IN  IF nextId \notin s1.connected
           THEN promoteNextSpectatorToSlot(s1, slot)
           ELSE Emit([s1 EXCEPT !.players[slot] = NewPlayer(nextId),
                                !.data[nextId].playerSlot = slot],
                     "update_state")

\* The join handler of part_000.
P0join(s, c) ==
  LET s0 == Enter(s, c)
      assigned == IF s0.players["A"] = NoPlayer THEN "A"
                  ELSE IF s0.players["B"] = NoPlayer THEN "B" ELSE "spectator"
      s1 == IF assigned \in Slots
            THEN [s0 EXCEPT !.players[assigned] = NewPlayer(c)]
            ELSE [s0 EXCEPT !.watchQueue =
                    Append(removeFromWatchQueue(@, c), c)]
      s2 == [s1 EXCEPT !.data[c].playerSlot = assigned]
      s3 == IF ~s2.started /\ s2.winner = Null
            THEN [s2 EXCEPT !.currentTurn = "A", !.started = TRUE]
            ELSE s2
  IN  Ack(assigned,
          IF BothPresent(s2)
          THEN Emit([s3 EXCEPT !.postDecisions = NoDecisions], "start_game")
          ELSE Emit(s2, "update_state"))

\* The statements shared by restart_game and the both-continue branch.
P0Reset(s) ==
  LET s1 == ResetHands([s EXCEPT !.board = EmptyBoard])
  IN  Emit([s1 EXCEPT !.currentTurn = "A", !.winner = Null,
                      !.started = BothPresent(s1),
                      !.postDecisions = NoDecisions], "start_game")

\* A quit is processed: the quitter's session loses its slot, the slot is
\* emptied; the socket stays in the socket.io room.
P0Vacate(s, slot) ==
  LET pl == s.players[slot]
      s1 == IF pl # NoPlayer /\ pl.id \in s.connected
            THEN [s EXCEPT !.data[pl.id].playerSlot = Null]
            ELSE s
  IN  [s1 EXCEPT !.players[slot] = NoPlayer]

P0VacateIfQuit(s, slot) ==
  IF s.postDecisions[slot] = "quit" THEN P0Vacate(s, slot) ELSE s

P0PromoteIfEmpty(s, slot) ==
  IF s.players[slot] = NoPlayer THEN promoteNextSpectatorToSlot(s, slot)
  ELSE s

\* After the promotions: a new match when both slots are occupied.
P0StartOrWait(s) ==
  IF BothPresent(s)
  THEN Emit([ResetHands([s EXCEPT !.board = EmptyBoard])
               EXCEPT !.currentTurn = "A", !.winner = Null, !.started = TRUE,
                      !.postDecisions = NoDecisions], "start_game")
  ELSE Emit([s EXCEPT !.started = FALSE, !.winner = Null,
                      !.postDecisions = NoDecisions], "update_state")

\* The postgame_decision handler of part_000.
P0postgameDecision(s, c, action) ==
  LET slot == s.data[c].playerSlot
  IN  IF ~HasRoom(s, c) THEN Ack("no_room", s)
      ELSE IF slot \notin Slots THEN Ack("not_player", s)
      ELSE IF action \notin {"continue", "quit"} THEN Ack("invalid_action", s)
      ELSE
        LET s1 == Emit([s EXCEPT !.postDecisions[slot] = action],
                       "postgame_update")
            a == s1.postDecisions["A"]
            b == s1.postDecisions["B"]
        IN  IF a # Null /\ b # Null
            THEN IF a = "continue" /\ b = "continue"
                 THEN Ack("ok", P0Reset(s1))
                 ELSE Ack("ok", P0StartOrWait(
                        P0PromoteIfEmpty(P0PromoteIfEmpty(
                          P0VacateIfQuit(P0VacateIfQuit(s1, "A"), "B"),
                          "A"), "B")))
            ELSE IF (a = "quit" /\ b = Null) \/ (a = Null /\ b = "quit")
            THEN LET q == IF a # Null THEN "A" ELSE "B"
                 IN  Ack("ok", P0StartOrWait(
                        promoteNextSpectatorToSlot(P0Vacate(s1, q), q)))
            ELSE Ack("ok", Emit(s1, "update_state"))

\* The restart_game handler of part_000.
P0restartGame(s, c) ==
  IF ~HasRoom(s, c) THEN Ack("none", s) ELSE Ack("ok", P0Reset(s))

\* The disconnect handler of part_000.
P0disconnect(s, c) ==
  LET s0 == Gone(s, c)
      slot == s.data[c].playerSlot
  IN  IF ~HasRoom(s0, c) THEN Forget(s0, c)
      ELSE
        LET s1 == [s0 EXCEPT !.watchQueue = removeFromWatchQueue(@, c)]
            s2 == IF slot \in Slots /\ s1.players[slot].id = c
                  THEN promoteNextSpectatorToSlot(
                         [s1 EXCEPT !.players[slot] = NoPlayer,
                                    !.started = FALSE], slot)
                  ELSE s1
        IN  Forget(IF s2.members = {} THEN DeleteRoom(s2)
                   ELSE Emit(s2, "update_state"), c)

P0Join(c) ==
  /\ impl = "part_000"
  /\ CanJoin(c)
  /\ Len(P0join(Cur, c).s.watchQueue) <= MaxQueue
  /\ Commit(P0join(Cur, c).s, "join", c)

P0PlacePiece(c, p) ==
  /\ impl = "part_000"
  /\ c \in connected
  /\ Commit(placePiece(Cur, c, p).s, "place_piece", c)

P0PostgameDecision(c, d) ==
  /\ impl = "part_000"
  /\ c \in connected
  /\ Commit(P0postgameDecision(Cur, c, d).s, "decision", c)

P0RestartGame(c) ==
  /\ impl = "part_000"
  /\ c \in connected
  /\ Commit(P0restartGame(Cur, c).s, "reset", c)

P0Disconnect(c) ==
  /\ impl = "part_000"
  /\ c \in connected
  /\ Commit(P0disconnect(Cur, c), "disconnect", c)

NextP0 ==
  \/ \E c \in Socks : P0Join(c)
  \/ \E c \in Socks, p \in Payloads : P0PlacePiece(c, p)
  \/ \E c \in Socks, d \in P0Decisions : P0PostgameDecision(c, d)
  \/ \E c \in Socks : P0RestartGame(c)
  \/ \E c \in Socks : P0Disconnect(c)

InitP0 == impl = "part_000" /\ InitCommon
SpecP0 == InitP0 /\ [][NextP0]_vars

\* =============================================================== server.js
SDecisions == {"continue", "leave", Null}

\* promoteFromQueue(roomState, slot)
RECURSIVE promoteFromQueue(_, _)
promoteFromQueue(s, slot) ==
  IF s.watchQueue = <<>> THEN s
  ELSE LET id == Head(s.watchQueue)
           s1 == [s EXCEPT !.watchQueue = Tail(@)]
       IN  IF id \notin s1.connected THEN promoteFromQueue(s1, slot)
           ELSE [s1 EXCEPT !.players[slot] = NewPlayer(id),
                           !.data[id].playerSlot = slot]

\* resetBoard(roomState)
resetBoard(s) ==
  LET s1 == ResetHands([s EXCEPT !.board = EmptyBoard])
  IN  [s1 EXCEPT !.currentTurn = "A", !.winner = Null,
                 !.started = BothPresent(s1)]

\* forceEndGame(roomID, leaverSlot); leaverSlot is the session's playerSlot,
\* "spectator" included.
forceEndGame(s, leaverSlot) ==
  LET otherSlot == IF leaverSlot = "A" THEN "B" ELSE "A"
      leaver == s.players[leaverSlot]
      other == s.players[otherSlot]
      s1 == IF leaver # NoPlayer
            THEN [s EXCEPT !.watchQueue = Append(@, leaver.id),
                           !.players[leaverSlot] = NoPlayer]
            ELSE s
      s2 == IF other # NoPlayer
            THEN [s1 EXCEPT !.players[leaverSlot] =
                              [other EXCEPT !.pieces = FullHand],
                            !.players[otherSlot] = NoPlayer]
            ELSE s1
  IN  Emit(resetBoard(promoteFromQueue(s2, otherSlot)), "start_game")

\* handle(slot) of evaluatePostGame: the survivors are kept aside in sv.
SHandle(w, slot) ==
  LET p == w.s.players[slot]
      act == w.s.postDecisions[slot]
      w1 == IF p = NoPlayer THEN w
            ELSE IF act = "continue" THEN [w EXCEPT !.sv = Append(@, p)]
            ELSE [w EXCEPT !.s.watchQueue = Append(@, p.id)]
  IN  [w1 EXCEPT !.s.players[slot] = NoPlayer]

\* The loop body of evaluatePostGame that refills one slot.
SRefill(w, slot) ==
  IF w.sv # <<>>
  THEN [w EXCEPT !.s.players[slot] = Head(w.sv), !.sv = Tail(@)]
  ELSE [w EXCEPT !.s = promoteFromQueue(@, slot)]

\* evaluatePostGame(roomID)
evaluatePostGame(s) ==
  IF s.postDecisions["A"] = Null \/ s.postDecisions["B"] = Null THEN s
  ELSE LET w0 == [s |-> s, sv |-> <<>>]
           w == SRefill(SRefill(SHandle(SHandle(w0, "A"), "B"), "A"), "B")
       IN  Emit(resetBoard([w.s EXCEPT !.postDecisions = NoDecisions]),
                "start_game")

\* The join handler of server.js.
Sjoin(s, c) ==
  LET s0 == Enter(s, c)
      slot == IF s0.players["A"] = NoPlayer THEN "A"
              ELSE IF s0.players["B"] = NoPlayer THEN "B" ELSE "spectator"
      s1 == IF slot # "spectator"
            THEN [s0 EXCEPT !.players[slot] = NewPlayer(c)]
            ELSE [s0 EXCEPT !.watchQueue = Append(@, c)]
      s2 == [s1 EXCEPT !.data[c].playerSlot = slot]
  IN  Ack(slot,
          IF BothPresent(s2)
          THEN Emit([s2 EXCEPT !.started = TRUE, !.currentTurn = "A"],
                    "start_game")
          ELSE Emit(s2, "update_state"))

\* The try block of server.js: anything thrown is caught as "invalid"; the
\* move branch pops the source before it tests the destination.
StryMove(s, slot, p) ==
  IF p.action = "place_from_hand"
  THEN LET pl == s.players[slot]
       IN  IF pl = NoPlayer THEN Rejected(s, "invalid")
           ELSE IF pl.pieces[p.size] <= 0 THEN Rejected(s, "invalid")
           ELSE IF ~canPlaceAt(s.board, p.to, p.size)
           THEN Rejected(s, "invalid")
           ELSE Accepted([s EXCEPT
                  !.board = Push(@, p.to, [owner |-> slot, size |-> p.size]),
                  !.players[slot].pieces[p.size] = @ - 1])
  ELSE IF "from" \notin DOMAIN p THEN Rejected(s, "invalid")
  ELSE IF s.board[p.from] = <<>> THEN Rejected(s, "invalid")
  ELSE LET top == Top(s.board[p.from])
           s1 == [s EXCEPT !.board = Pop(@, p.from)]
       IN  IF ~canPlaceAt(s1.board, p.to, top.size)
           THEN Rejected(s1, "invalid")
           ELSE Accepted([s1 EXCEPT !.board = Push(@, p.to, top)])

\* The place_piece handler of server.js: a request that fails a precondition
\* returns without an acknowledgment.
SplacePiece(s, c, p) ==
  LET slot == s.data[c].playerSlot
  IN  IF ~HasRoom(s, c) \/ ~s.started \/ s.winner # Null
         \/ s.currentTurn # slot
      THEN Ack("none", s)
      ELSE LET r == StryMove(s, slot, p)
           IN  IF r.err # Null THEN Ack("invalid", r.s)
               ELSE Ack("ok", afterMove(r.s, slot))

\* The postgame_decision handler of server.js.  A spectator's request writes
\* postDecisions.spectator, a property that no code reads (evaluatePostGame
\* reads A and B, sanitizeState leaves postDecisions out) and that is dropped
\* with the object at the next reset: it is not kept in the state.
SpostgameDecision(s, c, action) ==
  LET slot == s.data[c].playerSlot
  IN  Ack("ok", evaluatePostGame(
        Emit([s EXCEPT !.postDecisions[slot] =
                IF slot \in Slots THEN action ELSE @], "postgame_update")))

\* The force_quit handler of server.js.
SforceQuit(s, c) == forceEndGame(s, s.data[c].playerSlot)

\* Repeated joins are not part of the runs of this variant.
SJoin(c) ==
  /\ impl = "server"
  /\ FirstJoin(c)
  /\ Len(Sjoin(Cur, c).s.watchQueue) <= MaxQueue
  /\ Commit(Sjoin(Cur, c).s, "join", c)

SPlacePiece(c, p) ==
  /\ impl = "server"
  /\ c \in connected
  /\ Commit(SplacePiece(Cur, c, p).s, "place_piece", c)

SPostgameDecision(c, d) ==
  /\ impl = "server"
  /\ c \in connected
  /\ Len(SpostgameDecision(Cur, c, d).s.watchQueue) <= MaxQueue
  /\ Commit(SpostgameDecision(Cur, c, d).s, "decision", c)

SForceQuit(c) ==
  /\ impl = "server"
  /\ c \in connected
  /\ Len(SforceQuit(Cur, c).watchQueue) <= MaxQueue
  /\ Commit(SforceQuit(Cur, c), "reset", c)

\* server.js registers no disconnect handler: a closed socket only leaves
\* io.sockets.sockets and its socket.io rooms.
SClose(c) ==
  /\ impl = "server"
  /\ c \in connected
  /\ Commit(Forget(Gone(Cur, c), c), "disconnect", c)

NextServer ==
  \/ \E c \in Socks : SJoin(c)
  \/ \E c \in Socks, p \in Payloads : SPlacePiece(c, p)
  \/ \E c \in Socks, d \in SDecisions : SPostgameDecision(c, d)
  \/ \E c \in Socks : SForceQuit(c)
  \/ \E c \in Socks : SClose(c)

InitServer == impl = "server" /\ InitCommon
SpecServer == InitServer /\ [][NextServer]_vars

\* ============================================================= whole repo
\* The repository's three variants side by side: the variant is fixed when
\* the server starts.
Init == impl \in Impls /\ InitCommon
Next == NextP1 \/ NextP0 \/ NextServer
Spec == Init /\ [][Next]_vars

\* ================================================================== rules
\* canPlaceAt and checkWinner on their own (the same code in the three
\* variants): the boards are drawn with every top owner at every cell, pieces
\* are stacked and lifted at the cells of StackCells by whoever they belong
\* to, and winner holds what checkWinner returned for the board.
StackCells == {<<1,1>>}
RuleStacks == {<<>>, <<[owner |-> "A", size |-> "small"]>>,
               <<[owner |-> "B", size |-> "small"]>>}
RuleBoards == [Cells -> RuleStacks]

InitRules ==
  /\ impl = "server"
  /\ nconn = 0 /\ connected = {} /\ members = {} /\ rooms = {}
  /\ data = [c \in Socks |-> NoData]
  /\ board \in RuleBoards
  /\ winner = checkWinner(board)
  /\ players = NoPlayers /\ currentTurn = Null /\ started = FALSE
  /\ watchQueue = <<>> /\ postDecisions = NoDecisions /\ rejoins = 0

RulesPlace(cell, owner, size) ==
  /\ canPlaceAt(board, cell, size)
  /\ board' = Push(board, cell, [owner |-> owner, size |-> size])
  /\ winner' = checkWinner(board')
  /\ UNCHANGED <<impl, nconn, connected, members, data, rooms, players,
                 currentTurn, started, watchQueue, postDecisions, rejoins>>

RulesLift(cell) ==
  /\ board[cell] # <<>>
  /\ board' = Pop(board, cell)
  /\ winner' = checkWinner(board')
  /\ UNCHANGED <<impl, nconn, connected, members, data, rooms, players,
                 currentTurn, started, watchQueue, postDecisions, rejoins>>

NextRules ==
  \/ \E cell \in StackCells, owner \in Slots, size \in Sizes :
       RulesPlace(cell, owner, size)
  \/ \E cell \in StackCells : RulesLift(cell)

SpecRules == InitRules /\ [][NextRules]_vars

\* ================================================================== match
\* One match of part_000 or part_001 from the empty board: connections 1 and
\* 2 have joined and send the moves of MatchPayloads.
MatchPayloads ==
  {FromHand("small", <<1,0>>), FromHand("small", <<0,2>>),
   FromHand("medium", <<0,2>>), FromHand("small", <<0,0>>),
   FromHand("small", <<1,1>>), FromHand("medium", <<0,1>>),
   OnBoard(<<0,2>>, <<1,2>>)}

\* The world before any connection.
World0 ==
  [board |-> EmptyBoard, players |-> NoPlayers, currentTurn |-> Null,
   winner |-> Null, started |-> FALSE, watchQueue |-> <<>>,
   postDecisions |-> NoDecisions, rooms |-> {},
   data |-> [c \in Socks |-> NoData], members |-> {}, connected |-> {},
   emits |-> <<>>]

\* The world after the joins of connections 1 and 2.
Joined12 == P1join(P1join(World0, 1).s, 2).s

InitMatch ==
  /\ impl \in {"part_000", "part_001"}
  /\ nconn = 2 /\ rejoins = 0
  /\ connected = Joined12.connected /\ members = Joined12.members
  /\ data = Joined12.data /\ rooms = Joined12.rooms
  /\ board = Joined12.board /\ players = Joined12.players
  /\ currentTurn = Joined12.currentTurn /\ winner = Joined12.winner
  /\ started = Joined12.started /\ watchQueue = Joined12.watchQueue
  /\ postDecisions = Joined12.postDecisions

MatchMove(c, p) ==
  /\ c \in connected
  /\ placePiece(Cur, c, p).ack = "ok"
  /\ Commit(placePiece(Cur, c, p).s, "place_piece", c)

NextMatch == \E c \in Socks, p \in MatchPayloads : MatchMove(c, p)

SpecMatch == InitMatch /\ [][NextMatch]_vars

\* ================================================================== claims
HandSum(pl) == pl.pieces["small"] + pl.pieces["medium"] + pl.pieces["large"]

\* The pieces of one owner in the board's stacks, covered ones included.
OnBoardCount(b, owner) ==
  Cardinality({ce \in Cells \X (1..6) :
                 ce[2] <= Len(b[ce[1]]) /\ b[ce[1]][ce[2]].owner = owner})

ActiveMatch == started /\ winner = Null

\* C1: hand conservation.  In every state with an active match (started,
\* no winner), for each slot the three hand counts plus the number of that
\* slot's pieces on the board is 6.
C1_HandConservation ==
  ActiveMatch =>
    \A k \in Slots : HandSum(players[k]) + OnBoardCount(board, k) = 6

\* The place_piece handler of the running variant.
placePieceOf(s, c, p) ==
  IF impl = "server" THEN SplacePiece(s, c, p) ELSE placePiece(s, c, p)

\* C2: a rejected place_piece mutates nothing.  In every reachable state,
\* for every live socket and every payload, a request answered with an error
\* leaves the board, the hands, currentTurn, winner, started, the spectator
\* queue and the post-game decisions as they were, and broadcasts nothing.
C2_RejectedMutatesNothing ==
  \A c \in connected, p \in AllPayloads :
    placePieceOf(Cur, c, p).ack \notin {"ok", "none"}
      => placePieceOf(Cur, c, p).s = Cur

\* The post-game decision handler, its decisions and the disconnect handler
\* of the running variant.
DecisionsOf ==
  IF impl = "server" THEN SDecisions
  ELSE IF impl = "part_000" THEN P0Decisions ELSE P1Decisions

decisionOf(s, c, d) ==
  IF impl = "server" THEN SpostgameDecision(s, c, d).s
  ELSE IF impl = "part_000" THEN P0postgameDecision(s, c, d).s
  ELSE P1postGameDecision(s, c, d).s

disconnectOf(s, c) ==
  IF impl = "server" THEN Forget(Gone(s, c), c)
  ELSE IF impl = "part_000" THEN P0disconnect(s, c)
  ELSE P1disconnect(s, c)

\* The handler left the slots, the winner and the board alone.
NotResolved(s) ==
  s.players = players /\ s.winner = winner /\ s.board = board

\* The handler cleared the winner: the resolution has fired.
Resolved(s) == winner # Null /\ s.winner = Null

\* C3: post-game resolution never fires early.  While winner is set and the
\* occupant of some slot has no recorded decision, no decision and no
\* disconnect of another connection vacates a slot, promotes a spectator,
\* clears winner or resets the board; and a handler that clears the winner
\* leaves postDecisions null/null.
C3_NoEarlyResolution ==
  /\ \A k \in Slots :
       (winner # Null /\ players[k] # NoPlayer /\ postDecisions[k] = Null)
       => \A c \in connected \ {players[k].id} :
            /\ NotResolved(disconnectOf(Cur, c))
            /\ \A d \in DecisionsOf : NotResolved(decisionOf(Cur, c, d))
  /\ \A c \in connected :
       /\ Resolved(disconnectOf(Cur, c))
            => disconnectOf(Cur, c).postDecisions = NoDecisions
       /\ \A d \in DecisionsOf :
            Resolved(decisionOf(Cur, c, d))
              => decisionOf(Cur, c, d).postDecisions = NoDecisions

\* A decision is still to come: the slot's occupant is connected and has
\* none recorded.
Undecided(k) ==
  players[k] # NoPlayer /\ players[k].id \in connected
    /\ postDecisions[k] = Null

\* C4: the post-game never stalls on an absent player.  No handler leaves
\* the room with winner set once every occupied slot has a recorded decision
\* (a slot whose player is gone counting as a leave): while winner is set,
\* some connected player has not decided yet.
C4_NoStall == winner # Null => \E k \in Slots : Undecided(k)

\* The join handler of the running variant, and the sockets whose join the
\* runs of the variant include.
joinOf(s, c) ==
  IF impl = "server" THEN Sjoin(s, c)
  ELSE IF impl = "part_000" THEN P0join(s, c) ELSE P1join(s, c)

JoinEnabled(c) == IF impl = "server" THEN FirstJoin(c) ELSE CanJoin(c)

FirstEmpty ==
  IF players["A"] = NoPlayer THEN "A"
  ELSE IF players["B"] = NoPlayer THEN "B" ELSE "spectator"

Last(q) == q[Len(q)]

\* C5: join slot assignment.  In every reachable state, a join assigns the
\* joiner slot A if A is empty, otherwise slot B if B is empty, otherwise puts
\* it at the back of the spectator queue (behind every entry already queued);
\* it keeps the one room of the id and never gives away a slot that a
\* connection holds.
C5_JoinAssignment ==
  \A c \in Socks : JoinEnabled(c) =>
    LET r == joinOf(Cur, c)
    IN  /\ r.ack = FirstEmpty
        /\ r.s.rooms = {RoomID}
        /\ r.s.data[c] = [roomID |-> RoomID, playerSlot |-> FirstEmpty]
        /\ \A k \in Slots :
             IF k = FirstEmpty THEN r.s.players[k].id = c
             ELSE r.s.players[k] = players[k]
        /\ IF FirstEmpty \in Slots THEN r.s.watchQueue = watchQueue
           ELSE /\ r.s.watchQueue # <<>> /\ Last(r.s.watchQueue) = c
                /\ (\A i \in 1..Len(watchQueue) : watchQueue[i] # c)
                     => r.s.watchQueue = Append(watchQueue, c)

\* Three connections have joined: two hold the slots, the third is queued.
C5_Witness ==
  /\ players["A"].id = 1 /\ players["B"].id = 2 /\ watchQueue = <<3>>
  /\ data[3].playerSlot = "spectator"

\* C6: join starts the match.  In every reachable state, a join that
\* assigns a player gives it the hand {2,2,2}; and if both slots are occupied
\* after it, in a room that was not started and had no winner, then
\* currentTurn = A and started = true after the join.
C6_JoinStarts ==
  \A c \in Socks : (JoinEnabled(c) /\ FirstEmpty \in Slots) =>
    LET r == joinOf(Cur, c)
    IN  /\ r.s.players[FirstEmpty] = [id |-> c, pieces |-> FullHand]
        /\ (BothPresent(r.s) /\ ~started /\ winner = Null)
             => r.s.currentTurn = "A" /\ r.s.started

\* The second player's join has started the match.
C6_Witness ==
  /\ started /\ currentTurn = "A" /\ winner = Null /\ board = EmptyBoard
  /\ players["A"].id = 1
  /\ players["B"] = [id |-> 2, pieces |-> FullHand]

\* C7: turn alternation.  In every reachable state: an accepted move that
\* produces no winner hands the turn to the other slot; a rejected move
\* leaves currentTurn as it was, and so do, during a match, a spectator's
\* join and a spectator's disconnect; and no move is accepted while winner
\* is set.
C7_TurnAlternation ==
  /\ \A c \in connected, p \in AllPayloads :
       LET r == placePieceOf(Cur, c, p)
       IN  /\ (r.ack = "ok" /\ r.s.winner = Null)
                => r.s.currentTurn = OtherSlot(currentTurn)
           /\ r.ack # "ok" => r.s.currentTurn = currentTurn
           /\ winner # Null => r.ack # "ok"
  /\ \A c \in Socks :
       (ActiveMatch /\ JoinEnabled(c) /\ FirstEmpty = "spectator")
         => joinOf(Cur, c).s.currentTurn = currentTurn
  /\ \A c \in connected :
       (ActiveMatch /\ data[c].playerSlot = "spectator"
          /\ RoomID \in disconnectOf(Cur, c).rooms)
         => disconnectOf(Cur, c).currentTurn = currentTurn

\* Some line of the board is complete with top pieces of owner w.
HasLine(b, w) ==
  \E i \in 1..Len(Lines) : LineWon(b, Lines[i]) /\ TopOwner(b, Lines[i][1]) = w

\* C8: win handling.  In every reachable state, for every request the
\* clients send, an accepted move whose board
\* checkWinner gives to a slot w leaves winner = w, started = false and both
\* post-game decisions null, and any other accepted move leaves winner null
\* and the turn with the other slot; and whenever winner is set, the board
\* holds a complete line whose top pieces are the winner's.
C8_WinHandling ==
  /\ \A c \in connected, p \in Payloads :
       LET r == placePieceOf(Cur, c, p)
           w == checkWinner(r.s.board)
       IN  r.ack = "ok" =>
             IF w # Null
             THEN /\ r.s.winner = w /\ ~r.s.started
                  /\ r.s.postDecisions["A"] = Null
                  /\ r.s.postDecisions["B"] = Null
             ELSE /\ r.s.winner = Null
                  /\ r.s.currentTurn = OtherSlot(data[c].playerSlot)
  /\ winner # Null => HasLine(board, winner)

\* A winning move has been accepted.
C8_Witness ==
  winner = "A" /\ ~started /\ checkWinner(board) = "A" /\ currentTurn = "A"

\* The acknowledgment the preconditions of place_piece call for, in their
\* order; "pass" when none fails.
Precondition(c) ==
  IF data[c].playerSlot \notin Slots THEN "spectator"
  ELSE IF ~started THEN "not_started"
  ELSE IF winner # Null THEN "game_over"
  ELSE IF currentTurn # data[c].playerSlot THEN "not_your_turn"
  ELSE "pass"

\* C9: move rejection reasons.  In every reachable state, a place_piece
\* request of a connection bound to the room that fails a precondition is
\* answered with the error of the first one that fails, in the order
\* spectator, not_started, game_over, not_your_turn, and changes nothing.
C9_RejectionReasons ==
  \A c \in connected, p \in AllPayloads :
    (HasRoom(Cur, c) /\ Precondition(c) # "pass")
      => placePieceOf(Cur, c, p) = [ack |-> Precondition(c), s |-> Cur]

HandPayloads == {FromHand(z, to) : z \in Sizes, to \in ProbeCells}

\* C10: place_from_hand.  In every reachable state, a place_from_hand
\* request that passes the preconditions is accepted iff the mover's hand
\* count for the size is > 0 (else the error is `no piece`) and canPlace holds
\* for the target (else `illegal`); when accepted, one piece of the mover and
\* of that size is pushed on the target, the mover's count for the size drops
\* by 1 and every other cell and hand is unchanged; hand counts stay in 0..2.
C10_PlaceFromHand ==
  /\ \A c \in connected, p \in HandPayloads :
       (HasRoom(Cur, c) /\ Precondition(c) = "pass") =>
         LET slot == data[c].playerSlot
             r == placePieceOf(Cur, c, p)
             inHand == players[slot].pieces[p.size] > 0
             legal == canPlaceAt(board, p.to, p.size)
         IN  /\ r.ack = "ok" <=> (inHand /\ legal)
             /\ ~inHand => r.ack = "no piece"
             /\ (inHand /\ ~legal) => r.ack = "illegal"
             /\ r.ack = "ok" =>
                  /\ r.s.board =
                       Push(board, p.to, [owner |-> slot, size |-> p.size])
                  /\ r.s.players =
                       [players EXCEPT ![slot].pieces[p.size] = @ - 1]
  /\ \A k \in Slots, z \in Sizes : players[k].pieces[z] \in 0..2

BoardPayloads == {OnBoard(f, to) : f \in ProbeCells, to \in ProbeCells}

\* C11: move_on_board is a pure relocation of the mover's own top piece.  In
\* every reachable state, a move_on_board request that passes the
\* preconditions is accepted only if the source is non-empty, its top piece is
\* the mover's and canPlace holds for the destination with that piece's size;
\* when accepted, the source's top piece has become the top of the
\* destination unchanged, every owner has as many pieces on the board as
\* before and the hands are unchanged.
C11_MoveOnBoard ==
  \A c \in connected, p \in BoardPayloads :
    (HasRoom(Cur, c) /\ Precondition(c) = "pass") =>
      LET slot == data[c].playerSlot
          r == placePieceOf(Cur, c, p)
      IN  r.ack = "ok" =>
            /\ board[p.from] # <<>>
            /\ Top(board[p.from]).owner = slot
            /\ canPlaceAt(board, p.to, Top(board[p.from]).size)
            /\ r.s.board = Push(Pop(board, p.from), p.to, Top(board[p.from]))
            /\ \A k \in Slots :
                 OnBoardCount(r.s.board, k) = OnBoardCount(board, k)
            /\ r.s.players = players

\* The order of the sizes, written out.
Smaller == {<<"small", "medium">>, <<"small", "large">>, <<"medium", "large">>}

\* The board with every stack cut down to its top piece.
TopsOnly(b) ==
  [cell \in Cells |-> IF b[cell] = <<>> THEN <<>> ELSE <<Top(b[cell])>>]

\* C12: canPlace.  For every board, cell and size, canPlaceAt is true iff the
\* cell is empty or the size of its top piece is strictly smaller than the
\* size placed; the pieces below the top do not influence the result.
C12_CanPlace ==
  \A cell \in Cells, z \in Sizes :
    /\ canPlaceAt(board, cell, z)
         <=> (board[cell] = <<>> \/ <<Top(board[cell]).size, z>> \in Smaller)
    /\ canPlaceAt(board, cell, z) = canPlaceAt(TopsOnly(board), cell, z)

\* A large piece covers a medium one that covers a small one, next to an
\* empty cell and a cell with a small top.
C12_Witness ==
  /\ Len(board[<<1,1>>]) = 3 /\ Top(board[<<1,1>>]).size = "large"
  /\ board[<<0,0>>] = <<>>
  /\ board[<<0,1>>] # <<>>

\* The lines in the order of the scan: rows 0,1,2, columns 0,1,2, the main
\* diagonal, the anti-diagonal.
Row(r) == <<<<r,0>>, <<r,1>>, <<r,2>>>>
Col(c) == <<<<0,c>>, <<1,c>>, <<2,c>>>>
ScanOrder == <<Row(0), Row(1), Row(2), Col(0), Col(1), Col(2),
               <<<<0,0>>, <<1,1>>, <<2,2>>>>, <<<<0,2>>, <<1,1>>, <<2,0>>>>>>

\* The three cells of the line are non-empty with top pieces of owner o.
Complete(b, line, o) ==
  \A i \in 1..3 : b[line[i]] # <<>> /\ Top(b[line[i]]).owner = o

\* C13: checkWinner.  For every board, checkWinner returns null iff no line
\* of the 8 is complete, and otherwise the owner of the first complete line in
\* the order rows 0,1,2, columns 0,1,2, main diagonal, anti-diagonal; the
\* result depends on the top pieces only and a second call gives the same.
C13_CheckWinner ==
  /\ checkWinner(board) = Null
       <=> \A i \in 1..8, o \in Slots : ~Complete(board, ScanOrder[i], o)
  /\ \A i \in 1..8, o \in Slots :
       (/\ Complete(board, ScanOrder[i], o)
        /\ \A j \in 1..(i-1), o2 \in Slots : ~Complete(board, ScanOrder[j], o2))
       => checkWinner(board) = o
  /\ checkWinner(board) \in Slots \cup {Null}
  /\ checkWinner(board) = checkWinner(TopsOnly(board))
  /\ winner = checkWinner(board)

\* Lines of both owners are complete, one of them through a covered piece,
\* and the first in the order decides.
C13_Witness ==
  /\ Complete(board, Row(0), "B") /\ Complete(board, Row(1), "A")
  /\ Len(board[<<1,1>>]) = 2
  /\ winner = "B"

\* One promotion attempt: the world before it, the empty slot, the world after.
Attempt(before, slot, after) ==
  [before |-> before, slot |-> slot, after |-> after]

\* The attempts of a refill of A then B, each made by `promote` when the
\* slot is empty.
P1RefillAttempts(mid) ==
  {t \in {Attempt(mid, "A", P1Refill(mid, "A")),
          Attempt(P1Refill(mid, "A"), "B",
                  P1Refill(P1Refill(mid, "A"), "B"))} :
     t.before.players[t.slot] = NoPlayer}

\* part_001: the attempts of resolveGameDecisions run on s1.
P1Attempts(s1) == P1RefillAttempts(P1Dispose(P1Dispose(s1, "A"), "B"))

\* part_001: the worlds on which a handler run from the current state calls
\* resolveGameDecisions (post_game_decision with nobody left to wait for,
\* disconnect of a player while winner is set).
P1ResolveInputs ==
  {s1 \in {[Cur EXCEPT !.postDecisions[data[x[1]].playerSlot] = x[2]] :
             x \in {y \in connected \X P1Decisions :
                      /\ HasRoom(Cur, y[1]) /\ winner # Null
                      /\ data[y[1]].playerSlot \in Slots}} :
     /\ ~(s1.players["A"] # NoPlayer /\ s1.postDecisions["A"] = Null)
     /\ ~(s1.players["B"] # NoPlayer /\ s1.postDecisions["B"] = Null)}
  \cup
  {[Gone(Cur, c) EXCEPT !.postDecisions[data[c].playerSlot] = "leave"] :
     c \in {y \in connected : /\ HasRoom(Cur, y) /\ winner # Null
                              /\ data[y].playerSlot \in Slots}}

\* part_000: the attempts of the postgame_decision handler (the quit paths)
\* and of the disconnect handler, run from the current state.
P0QuitAttempts(s1) ==
  LET a == s1.postDecisions["A"]
      b == s1.postDecisions["B"]
      v == P0VacateIfQuit(P0VacateIfQuit(s1, "A"), "B")
      v2 == P0PromoteIfEmpty(v, "A")
      q == IF a # Null THEN "A" ELSE "B"
  IN  IF a # Null /\ b # Null
      THEN IF a = "continue" /\ b = "continue" THEN {}
           ELSE {t \in {Attempt(v, "A", promoteNextSpectatorToSlot(v, "A")),
                        Attempt(v2, "B", promoteNextSpectatorToSlot(v2, "B"))} :
                   t.before.players[t.slot] = NoPlayer}
      ELSE IF (a = "quit" /\ b = Null) \/ (a = Null /\ b = "quit")
      THEN {Attempt(P0Vacate(s1, q), q,
                    promoteNextSpectatorToSlot(P0Vacate(s1, q), q))}
      ELSE {}

P0DecisionAttempts ==
  UNION {P0QuitAttempts(Emit([Cur EXCEPT
                                !.postDecisions[data[x[1]].playerSlot] = x[2]],
                             "postgame_update")) :
           x \in {y \in connected \X {"continue", "quit"} :
                    HasRoom(Cur, y[1]) /\ data[y[1]].playerSlot \in Slots}}

P0DisconnectAttempts ==
  {Attempt([Gone(Cur, c) EXCEPT
              !.watchQueue = removeFromWatchQueue(@, c),
              !.players[data[c].playerSlot] = NoPlayer, !.started = FALSE],
           data[c].playerSlot,
           P0disconnect(Cur, c)) :
     c \in {y \in connected :
              /\ HasRoom(Cur, y) /\ data[y].playerSlot \in Slots
              /\ players[data[y].playerSlot].id = y
              /\ members # {y}}}

\* server.js: the attempts of evaluatePostGame (a slot no survivor takes) and
\* of forceEndGame, run from the current state.
SEvaluateAttempts(s1) ==
  IF s1.postDecisions["A"] = Null \/ s1.postDecisions["B"] = Null THEN {}
  ELSE LET w == SHandle(SHandle([s |-> s1, sv |-> <<>>], "A"), "B")
           w2 == SRefill(w, "A")
       IN  (IF w.sv = <<>>
            THEN {Attempt(w.s, "A", promoteFromQueue(w.s, "A"))} ELSE {})
           \cup
           (IF w2.sv = <<>>
            THEN {Attempt(w2.s, "B", promoteFromQueue(w2.s, "B"))} ELSE {})

SForceAttempt(s, leaverSlot) ==
  LET otherSlot == IF leaverSlot = "A" THEN "B" ELSE "A"
      leaver == s.players[leaverSlot]
      other == s.players[otherSlot]
      s1 == IF leaver # NoPlayer
            THEN [s EXCEPT !.watchQueue = Append(@, leaver.id),
                           !.players[leaverSlot] = NoPlayer]
            ELSE s
      s2 == IF other # NoPlayer
            THEN [s1 EXCEPT !.players[leaverSlot] =
                              [other EXCEPT !.pieces = FullHand],
                            !.players[otherSlot] = NoPlayer]
            ELSE s1
  IN  Attempt(s2, otherSlot, promoteFromQueue(s2, otherSlot))

SAttempts ==
  UNION {SEvaluateAttempts(
           [Cur EXCEPT !.postDecisions[data[x[1]].playerSlot] =
                         IF data[x[1]].playerSlot \in Slots THEN x[2] ELSE @]) :
           x \in {y \in connected \X SDecisions : HasRoom(Cur, y[1])}}
  \cup {SForceAttempt(Cur, data[c].playerSlot) :
          c \in {y \in connected : HasRoom(Cur, y)}}

\* The promotion attempts of every handler run from the current state.
Attempts ==
  IF impl = "server" THEN SAttempts
  ELSE IF impl = "part_000" THEN P0DecisionAttempts \cup P0DisconnectAttempts
  ELSE UNION {P1Attempts(s1) : s1 \in P1ResolveInputs}

\* The queue positions whose connection is present.
PresentAt(s) == {i \in 1..Len(s.watchQueue) : s.watchQueue[i] \in s.connected}

\* C14: FIFO promotion.  In every reachable state, every promotion attempt
\* of a handler gives the empty slot to the earliest-queued entry whose
\* connection is present, with the hand {2,2,2}, discards the stale entries
\* ahead of it and leaves the entries behind it in their order; it leaves the
\* slot empty only if no queued connection is present.
C14_FifoPromotion ==
  \A t \in Attempts :
    LET q == t.before.watchQueue
    IN  IF PresentAt(t.before) = {}
        THEN t.after.players[t.slot] = NoPlayer
        ELSE LET i == CHOOSE i \in PresentAt(t.before) :
                        \A j \in PresentAt(t.before) : i <= j
             IN  /\ t.after.players[t.slot] =
                      [id |-> q[i], pieces |-> FullHand]
                 /\ t.after.watchQueue = SubSeq(q, i + 1, Len(q))

\* What a resolution is to leave behind.
AfterResolution(s) ==
  /\ s.board = EmptyBoard /\ s.winner = Null /\ s.postDecisions = NoDecisions
  /\ \A k \in Slots :
       s.players[k] # NoPlayer => s.players[k].pieces = FullHand
  /\ IF BothPresent(s)
     THEN s.currentTurn = "A" /\ s.started /\ Last(s.emits).ev = "start_game"
     ELSE /\ s.currentTurn = Null /\ ~s.started
          /\ Last(s.emits).ev = "update_state"

\* C15: the state after resolution.  In every reachable state, a post-game
\* decision or a disconnect that resolves the post-game (winner was set and
\* is cleared) leaves the board empty, winner and both decisions null and
\* every occupied slot with the hand {2,2,2}; with both slots occupied
\* currentTurn = A, started = true and a start is broadcast, otherwise
\* started = false, currentTurn = null and an update is broadcast.
C15_AfterResolution ==
  \A c \in connected :
    /\ \A d \in DecisionsOf :
         Resolved(decisionOf(Cur, c, d))
           => AfterResolution(decisionOf(Cur, c, d))
    /\ (Resolved(disconnectOf(Cur, c)) /\ RoomID \in disconnectOf(Cur, c).rooms)
         => AfterResolution(disconnectOf(Cur, c))

\* The words of the variant for the decisions to leave and to go on.
LeaveWord == IF impl = "part_000" THEN "quit" ELSE "leave"
ContinueWord == IF impl = "part_001" THEN "rematch" ELSE "continue"

\* The decision of slot k that a resolution finds when connection c has just
\* sent d.
DecisionAt(c, d, k) == IF data[c].playerSlot = k THEN d ELSE postDecisions[k]

\* The connection takes no part in the room any more.
OutOfRoom(s, id) ==
  /\ \A k \in Slots : s.players[k].id # id
  /\ \A i \in 1..Len(s.watchQueue) : s.watchQueue[i] # id
  /\ s.data[id].roomID = Null

\* C16: the leave decision.  In every reachable state, after a resolution
\* by a decision, a player whose decision was leave (quit) holds neither slot,
\* is not in the spectator queue and has no room binding; and so for a player
\* whose disconnect resolved the post-game.
C16_LeaveDecision ==
  \A c \in connected :
    /\ \A d \in DecisionsOf, k \in Slots :
         (/\ Resolved(decisionOf(Cur, c, d))
          /\ players[k] # NoPlayer
          /\ DecisionAt(c, d, k) = LeaveWord)
         => OutOfRoom(decisionOf(Cur, c, d), players[k].id)
    /\ (Resolved(disconnectOf(Cur, c)) /\ data[c].playerSlot \in Slots)
         => OutOfRoom(disconnectOf(Cur, c), c)

\* C17: the spectate decision.  In every reachable state, when a handler
\* resolves the post-game, a player whose decision was spectate leaves its
\* slot for the back of the spectator queue, behind every entry queued before
\* the resolution, with the session slot spectator; and it is back in a slot
\* after the resolution only if every present spectator queued before it has
\* been promoted by then.
C17_SpectateDecision ==
  \A s1 \in P1ResolveInputs, k \in Slots :
    (s1.players[k] # NoPlayer /\ s1.postDecisions[k] = "spectate") =>
      LET id == s1.players[k].id
          mid == P1Dispose(P1Dispose(s1, "A"), "B")
          r == resolveGameDecisions(s1)
          n == Len(s1.watchQueue)
      IN  /\ mid.players[k] = NoPlayer
          /\ SubSeq(mid.watchQueue, 1, n) = s1.watchQueue
          /\ \E i \in (n + 1)..Len(mid.watchQueue) : mid.watchQueue[i] = id
          /\ id \in mid.connected => mid.data[id].playerSlot = "spectator"
          /\ (\E k2 \in Slots : r.players[k2].id = id)
               => \A i \in 1..n :
                    s1.watchQueue[i] \in s1.connected
                      => \E k2 \in Slots : r.players[k2].id = s1.watchQueue[i]

\* C18: the continue decision.  In every reachable state, after a resolution
\* by a decision, a player whose decision was continue (rematch) holds the
\* slot it held before, whatever the other player decided, with the hand
\* {2,2,2}.
C18_ContinueDecision ==
  \A c \in connected, d \in DecisionsOf, k \in Slots :
    (/\ Resolved(decisionOf(Cur, c, d))
     /\ players[k] # NoPlayer
     /\ DecisionAt(c, d, k) = ContinueWord)
    => decisionOf(Cur, c, d).players[k]
         = [id |-> players[k].id, pieces |-> FullHand]

\* The decision vocabulary of the variant.
Vocabulary ==
  IF impl = "server" THEN {"continue", "leave"}
  ELSE IF impl = "part_000" THEN {"continue", "quit"}
  ELSE {"rematch", "leave", "spectate"}

\* The fields of the room.
RoomOf(s) ==
  <<s.board, s.players, s.currentTurn, s.winner, s.started, s.watchQueue,
    s.postDecisions>>

\* C19: post-game decision validity.  In every reachable state, a post-game
\* decision of a connection that holds neither slot, or sent while winner is
\* null, or with a value outside the vocabulary, changes nothing:
\* postDecisions, players and hands, board, turn, winner, started and the
\* spectator queue are as before.
C19_DecisionValidity ==
  \A c \in connected, d \in DecisionsOf :
    (/\ HasRoom(Cur, c)
     /\ \/ data[c].playerSlot \notin Slots
        \/ winner = Null
        \/ d \notin Vocabulary)
    => RoomOf(decisionOf(Cur, c, d)) = RoomOf(Cur)

\* C20: the mid-game disconnect.  In every reachable state with a match in
\* progress, the disconnect of the occupant of a slot (the room staying)
\* leaves that slot empty, started = false and the spectator queue as it was.
C20_MidGameDisconnect ==
  \A c \in connected :
    (/\ ActiveMatch /\ HasRoom(Cur, c)
     /\ data[c].playerSlot \in Slots
     /\ players[data[c].playerSlot].id = c
     /\ RoomID \in disconnectOf(Cur, c).rooms)
    => /\ disconnectOf(Cur, c).players[data[c].playerSlot] = NoPlayer
       /\ ~disconnectOf(Cur, c).started
       /\ disconnectOf(Cur, c).watchQueue = watchQueue

\* C21: room lifecycle.  In every reachable state the room is in the
\* registry exactly while it has at least one member connection, and a join
\* to an id that has a room keeps that room: its board, winner and players
\* are not replaced.
C21_RoomLifecycle ==
  /\ RoomID \in rooms <=> members # {}
  /\ \A c \in Socks :
       (JoinEnabled(c) /\ RoomID \in rooms) =>
         /\ joinOf(Cur, c).s.board = board
         /\ joinOf(Cur, c).s.winner = winner
         /\ \A k \in Slots :
              players[k] # NoPlayer => joinOf(Cur, c).s.players[k] = players[k]

\* The first queued connection that is present, and the queue behind it.
FirstPresent(s, q) ==
  q[CHOOSE i \in 1..Len(q) :
      q[i] \in s.connected /\ \A j \in 1..(i-1) : q[j] \notin s.connected]
RestBehind(s, q) ==
  SubSeq(q, 1 + (CHOOSE i \in 1..Len(q) :
                   q[i] \in s.connected
                     /\ \A j \in 1..(i-1) : q[j] \notin s.connected), Len(q))

\* C22: the effect of force_quit.  In every reachable state of server.js,
\* after a force_quit by the occupant of a slot while the other slot is
\* occupied: the initiator has gone to the back of the spectator queue, the
\* former occupant of the other slot holds the initiator's slot, the other
\* slot has been filled with the first present connection of that queue, the
\* board is empty, winner is null, every occupied slot has the hand {2,2,2}
\* and started = true iff both slots are occupied.
C22_ForceQuitEffect ==
  \A c \in connected, k \in Slots :
    (/\ impl = "server" /\ HasRoom(Cur, c)
     /\ players[k].id = c /\ players[OtherSlot(k)] # NoPlayer)
    => LET r == SforceQuit(Cur, c)
           q == Append(watchQueue, c)
       IN  /\ r.players[k] = [id |-> players[OtherSlot(k)].id,
                              pieces |-> FullHand]
           /\ r.players[OtherSlot(k)] =
                [id |-> FirstPresent(Cur, q), pieces |-> FullHand]
           /\ r.watchQueue = RestBehind(Cur, q)
           /\ r.board = EmptyBoard /\ r.winner = Null
           /\ r.started <=> BothPresent(r)

\* Lines of both owners are complete on the board.
DoubleWin(b) ==
  /\ \E i \in 1..8 : Complete(b, ScanOrder[i], "A")
  /\ \E i \in 1..8 : Complete(b, ScanOrder[i], "B")

\* The owner of the first complete line in the order of the scan.
FirstComplete(b) ==
  LET i == CHOOSE i \in 1..8 :
             /\ \E o \in Slots : Complete(b, ScanOrder[i], o)
             /\ \A j \in 1..(i-1), o \in Slots : ~Complete(b, ScanOrder[j], o)
  IN  CHOOSE o \in Slots : Complete(b, ScanOrder[i], o)

\* Every request a player can send for a move: any size to any cell, any cell
\* to any cell.
AnyMove ==
       {FromHand(z, t) : z \in Sizes, t \in Cells}
  \cup {OnBoard(f, t) : f \in Cells, t \in Cells}

C24_UnknownAction ==
  \A c \in connected :
    (HasRoom(Cur, c) /\ Precondition(c) = "pass") =>
      LET r == placePieceOf(Cur, c, [action |-> "pass"])
      IN  /\ r.ack \notin {"ok", "none"}
          /\ r.s.board = board /\ r.s.players = players
          /\ r.s.currentTurn = currentTurn /\ r.s.winner = winner

\* C25: a spectator's join is transparent to the match.  In every reachable
\* state of a room with both slots occupied, a join (queued as spectator)
\* leaves the board, both hands, currentTurn, started, winner and the
\* recorded post-game decisions as they were.
C25_SpectatorJoinTransparent ==
  \A c \in Socks :
    (JoinEnabled(c) /\ RoomID \in rooms /\ FirstEmpty = "spectator") =>
      LET r == joinOf(Cur, c).s
      IN  /\ r.board = board /\ r.players = players
          /\ r.currentTurn = currentTurn /\ r.started = started
          /\ r.winner = winner /\ r.postDecisions = postDecisions

\* The worlds the handlers of the running variant leave when run from the
\* current state, with what they broadcast.
HandlerRuns ==
       {joinOf(Cur, c).s : c \in {y \in Socks : JoinEnabled(y)}}
  \cup {placePieceOf(Cur, c, p).s : c \in connected, p \in Payloads}
  \cup {decisionOf(Cur, c, d) : c \in connected, d \in DecisionsOf}
  \cup {disconnectOf(Cur, c) : c \in connected}
  \cup (IF impl = "part_000"
        THEN {P0restartGame(Cur, c).s : c \in connected} ELSE {})
  \cup (IF impl = "server"
        THEN {SforceQuit(Cur, c) : c \in connected} ELSE {})

StartsIn(s) == {i \in 1..Len(s.emits) : s.emits[i].ev = "start_game"}

\* C26: the start broadcast is truthful.  In every reachable state, every
\* start_game a handler broadcasts carries a snapshot with started = true,
\* winner = null and both slots occupied, and a handler that leaves a slot
\* empty or a winner pending broadcasts no start_game.
C26_StartTruthful ==
  \A r \in HandlerRuns :
    /\ \A i \in StartsIn(r) :
         /\ r.emits[i].started /\ r.emits[i].winner = Null
         /\ r.emits[i].A /\ r.emits[i].B
    /\ (~BothPresent(r) \/ r.winner # Null) => StartsIn(r) = {}

\* C27: the session binding matches the room.  In every reachable state, a
\* live connection recorded in slot s has the session slot s and the room's
\* id, and a live connection whose session slot is A or B is the one recorded
\* in that slot.
C27_SessionBinding ==
  /\ \A k \in Slots :
       (players[k] # NoPlayer /\ players[k].id \in connected)
         => data[players[k].id] = [roomID |-> RoomID, playerSlot |-> k]
  /\ \A c \in connected :
       (HasRoom(Cur, c) /\ data[c].playerSlot \in Slots)
         => players[data[c].playerSlot].id = c

\* C28: the started invariant.  In every reachable state, started = true
\* implies that both slots are occupied, winner = null and currentTurn is A
\* or B.
C28_StartedInvariant ==
  started => (BothPresent(Cur) /\ winner = Null /\ currentTurn \in Slots)

\* C29: every match starts fresh.  In every reachable state, a handler that
\* turns started from false to true leaves the board empty and both hands
\* {2,2,2}.
C29_FreshStart ==
  \A r \in HandlerRuns :
    (~started /\ r.started) =>
      /\ r.board = EmptyBoard
      /\ \A k \in Slots : r.players[k].pieces = FullHand

\* C30: force_quit is a player-only action.  In every reachable state of
\* server.js, a force_quit of a connection whose session slot is neither A
\* nor B leaves the players, hands, board, currentTurn, winner, started and
\* the spectator queue as they were.
C30_ForceQuitPlayerOnly ==
  \A c \in connected :
    (impl = "server" /\ HasRoom(Cur, c) /\ data[c].playerSlot \notin Slots)
      => RoomOf(SforceQuit(Cur, c)) = RoomOf(Cur)

\* No connection is queued twice in room s.
QueueDistinct(s) ==
  \A i, j \in 1..Len(s.watchQueue) :
    i # j => s.watchQueue[i] # s.watchQueue[j]

\* No connection is queued in room s while it is the occupant of a slot.
QueueApart(s) ==
  \A i \in 1..Len(s.watchQueue), k \in Slots :
    s.players[k] = NoPlayer \/ s.players[k].id # s.watchQueue[i]

\* C31: queue uniqueness.  In every reachable state a connection appears at
\* most once in the spectator queue and no queued connection is the occupant
\* of slot A or B, and a join sent by a connection that has joined before
\* leaves the room so.
C31_QueueUniqueness ==
  /\ QueueDistinct(Cur) /\ QueueApart(Cur)
  /\ \A c \in connected :
       HasRoom(Cur, c) =>
         /\ QueueDistinct(joinOf(Cur, c).s)
         /\ QueueApart(joinOf(Cur, c).s)

====
